---- MODULE Spec2Model ----
(***************************************************************************)
(* Ticket Tracker (App, the ticket list screen) and Counter.               *)
(*                                                                         *)
(* The ticket screen keeps seven useState cells: tickets, modalVisible,    *)
(* isEditing, currentId, title, description, status.  Its handlers are     *)
(* openModal, saveTicket, deleteTicket, updateRating, the three field      *)
(* setters handed to the form inputs, and the Cancel button's arrow        *)
(* function.  Every write to the collection is a functional updater        *)
(* (setTickets(prev => ...)), so it is applied to the latest collection.   *)
(*                                                                         *)
(* The counter keeps one useState cell.  Its handlers are closures created *)
(* by a render: they read the count that render saw (setCount(count + 1)), *)
(* so the value a render captured is part of the state.                    *)
(***************************************************************************)
EXTENDS Integers, Sequences, FiniteSets

VARIABLES
    tickets,        \* useState<Ticket[]>: the ordered collection
    modalVisible,   \* useState(false)
    isEditing,      \* useState(false)
    currentId,      \* useState<string | null>(null)
    title,          \* useState('')
    description,    \* useState('')
    status,         \* useState('Created')
    now,            \* the value Date.now() returns
    last,           \* history: the handler that ran last, with its arguments
    before,         \* history: the collection as it was when that handler started
    session,        \* history: the edit session as the opens and field edits define it
    steps,          \* history: events so far (handler calls and clock ticks)
    count,          \* Counter: the useState cell
    shown,          \* Counter: the count captured by the handlers of the current render
    net             \* history: increments minus decrements since the last reset

appVars == <<tickets, modalVisible, isEditing, currentId, title, description, status>>
histVars == <<last, before, session, steps>>
counterVars == <<count, shown, net>>
vars == <<appVars, now, histVars, counterVars>>

----------------------------------------------------------------------------
(* Bounds of the model *)

\* creates are offered while the collection is shorter than this
MaxTickets == 5
\* the first value of the clock; far above the seed ids, as a real clock is
NowStart == 9
\* the clock stops advancing here
MaxNow == 10
\* events are offered until this many have happened
MaxSteps == 5
\* presses are offered while |net| and |count| stay within this
MaxCount == 4

----------------------------------------------------------------------------
(* Values *)

\* an optional value (rating?: number, string | null, ticket?: Ticket)
None == <<>>
Some(x) == <<x>>

Statuses == {"Created", "Under Assistance", "Completed"}

\* the five stars of the Rating control
Stars == {1, 2, 3, 4, 5}

\* the stars the model presses
StarInputs == {1, 5}

\* what the user can type into the two text inputs
Titles == {"X"}
Descriptions == {"Y"}

Digits == <<"0", "1", "2", "3", "4", "5", "6", "7", "8", "9">>

\* Number.prototype.toString() of a non-negative integer
RECURSIVE ToString(_)
ToString(n) ==
    IF n < 10 THEN Digits[n + 1]
    ELSE ToString(n \div 10) \o Digits[(n % 10) + 1]

SeedTickets ==
    << [id |-> "1", title |-> "Login Issue",
        description |-> "User cannot log in with email.",
        status |-> "Created", rating |-> None],
       [id |-> "2", title |-> "Payment Bug",
        description |-> "Stripe integration failing on iOS.",
        status |-> "Under Assistance", rating |-> None],
       [id |-> "3", title |-> "UI Feedback",
        description |-> "Improve dashboard layout.",
        status |-> "Completed", rating |-> Some(4)] >>

\* every id a handler can be called with: the seeds' and the clock's
IdSpace == {"1", "2", "3"} \cup {ToString(n) : n \in NowStart..MaxNow}

\* JavaScript truthiness of a string | null
Truthy(s) == s # None /\ s[1] # ""

----------------------------------------------------------------------------
(* The ticket screen's handlers *)

\* openModal with the create branch's three field resets forgotten
openModal_KeepFields(ticket) ==
    /\ IF ticket # None
       THEN /\ isEditing' = TRUE
            /\ currentId' = Some(ticket[1].id)
            /\ title' = ticket[1].title
            /\ description' = ticket[1].description
            /\ status' = ticket[1].status
       ELSE /\ isEditing' = FALSE
            /\ currentId' = None
            /\ UNCHANGED <<title, description, status>>
    /\ modalVisible' = TRUE
    /\ UNCHANGED tickets

\* openModal's two branches: the state the five setters leave
openModal(ticket) ==
    /\ IF ticket # None
       THEN /\ isEditing' = TRUE
            /\ currentId' = Some(ticket[1].id)
            /\ title' = ticket[1].title
            /\ description' = ticket[1].description
            /\ status' = ticket[1].status
       ELSE /\ isEditing' = FALSE
            /\ currentId' = None
            /\ title' = ""
            /\ description' = ""
            /\ status' = "Created"
    /\ modalVisible' = TRUE
    /\ UNCHANGED tickets

\* the edit branch's mapper with the id test forgotten
EditTicket_AnyId(t, id, ti, de, st) ==
    [t EXCEPT !.title = ti, !.description = de, !.status = st,
              !.rating = IF st = "Completed" THEN t.rating ELSE None]

\* the edit branch's mapper: { ...t, title, description, status, rating: ... }
EditTicket(t, id, ti, de, st) ==
    IF t.id = id
    THEN [t EXCEPT !.title = ti, !.description = de, !.status = st,
                   !.rating = IF st = "Completed" THEN t.rating ELSE None]
    ELSE t

\* newTicket with title and description swapped
NewTicket_Swapped(clock, ti, de, st) ==
    [id |-> ToString(clock), title |-> de, description |-> ti,
     status |-> st, rating |-> None]

\* the create branch's newTicket; no rating key
NewTicket(clock, ti, de, st) ==
    [id |-> ToString(clock), title |-> ti, description |-> de,
     status |-> st, rating |-> None]

saveTicket ==
    /\ IF isEditing /\ Truthy(currentId)
       THEN tickets' = [i \in 1..Len(tickets) |->
                           EditTicket(tickets[i], currentId[1], title, description, status)]
       ELSE tickets' = Append(tickets, NewTicket(now, title, description, status))
    /\ modalVisible' = FALSE
    /\ UNCHANGED <<isEditing, currentId, title, description, status>>

\* prev.filter((t) => t.id !== id)
KeepTicket(t, id) == t.id # id

deleteTicket(id) ==
    /\ tickets' = SelectSeq(tickets, LAMBDA t : KeepTicket(t, id))
    /\ UNCHANGED <<modalVisible, isEditing, currentId, title, description, status>>

\* the mapper of updateRating: { ...t, rating: newRating }
RateTicket(t, id, newRating) ==
    IF t.id = id THEN [t EXCEPT !.rating = Some(newRating)] ELSE t

updateRating(id, newRating) ==
    /\ tickets' = [i \in 1..Len(tickets) |-> RateTicket(tickets[i], id, newRating)]
    /\ UNCHANGED <<modalVisible, isEditing, currentId, title, description, status>>

setTitle(v) ==
    /\ title' = v
    /\ UNCHANGED <<tickets, modalVisible, isEditing, currentId, description, status>>

setDescription(v) ==
    /\ description' = v
    /\ UNCHANGED <<tickets, modalVisible, isEditing, currentId, title, status>>

setStatus(v) ==
    /\ status' = v
    /\ UNCHANGED <<tickets, modalVisible, isEditing, currentId, title, description>>

\* a Cancel button wired to the Save handler
cancel_Commits ==
    /\ IF isEditing /\ Truthy(currentId)
       THEN tickets' = [i \in 1..Len(tickets) |->
                           EditTicket(tickets[i], currentId[1], title, description, status)]
       ELSE tickets' = Append(tickets, NewTicket(now, title, description, status))
    /\ modalVisible' = FALSE
    /\ UNCHANGED <<isEditing, currentId, title, description, status>>

\* the Cancel button: () => setModalVisible(false)
cancel ==
    /\ modalVisible' = FALSE
    /\ UNCHANGED <<tickets, isEditing, currentId, title, description, status>>

----------------------------------------------------------------------------
(* History kept beside the program state, for stating the properties *)

NoSession == [mode |-> "None", id |-> None, title |-> "", description |-> "",
              status |-> "Created"]

Op(name, id, arg) == [op |-> name, id |-> id, arg |-> arg]

Record(name, id, arg) ==
    /\ steps < MaxSteps
    /\ steps' = steps + 1
    /\ last' = Op(name, id, arg)
    /\ before' = tickets

----------------------------------------------------------------------------
(* The ticket screen's steps *)

OpenForCreate ==
    /\ openModal(None)
    /\ Record("openForCreate", None, None)
    /\ session' = [mode |-> "Create", id |-> None, title |-> "",
                   description |-> "", status |-> "Created"]
    /\ UNCHANGED <<now, counterVars>>

OpenForEdit ==
    \E i \in 1..Len(tickets) :
        /\ openModal(Some(tickets[i]))
        /\ Record("openForEdit", Some(tickets[i].id), Some(tickets[i]))
        /\ session' = [mode |-> "Edit", id |-> Some(tickets[i].id),
                       title |-> tickets[i].title,
                       description |-> tickets[i].description,
                       status |-> tickets[i].status]
        /\ UNCHANGED <<now, counterVars>>

SetTitle ==
    \E v \in Titles :
        /\ setTitle(v)
        /\ Record("setField", None, None)
        /\ session' = [session EXCEPT !.title = v]
        /\ UNCHANGED <<now, counterVars>>

SetDescription ==
    \E v \in Descriptions :
        /\ setDescription(v)
        /\ Record("setField", None, None)
        /\ session' = [session EXCEPT !.description = v]
        /\ UNCHANGED <<now, counterVars>>

SetStatus ==
    \E v \in Statuses :
        /\ setStatus(v)
        /\ Record("setField", None, None)
        /\ session' = [session EXCEPT !.status = v]
        /\ UNCHANGED <<now, counterVars>>

Save ==
    /\ isEditing \/ Len(tickets) < MaxTickets
    /\ saveTicket
    /\ Record("save", None, None)
    /\ UNCHANGED <<session, now, counterVars>>

Cancel ==
    /\ cancel
    /\ Record("cancel", None, None)
    /\ UNCHANGED <<session, now, counterVars>>

Delete ==
    \E id \in IdSpace :
        /\ deleteTicket(id)
        /\ Record("delete", Some(id), None)
        /\ UNCHANGED <<session, now, counterVars>>

Rate ==
    \E id \in IdSpace, newRating \in StarInputs :
        /\ updateRating(id, newRating)
        /\ Record("rate", Some(id), Some(newRating))
        /\ UNCHANGED <<session, now, counterVars>>

\* a millisecond passes
Tick ==
    /\ now < MaxNow
    /\ now' = now + 1
    /\ steps < MaxSteps
    /\ steps' = steps + 1
    /\ UNCHANGED <<appVars, last, before, session, counterVars>>

InitApp ==
    /\ tickets = SeedTickets
    /\ modalVisible = FALSE
    /\ isEditing = FALSE
    /\ currentId = None
    /\ title = ""
    /\ description = ""
    /\ status = "Created"
    /\ now = NowStart
    /\ last = Op("init", None, None)
    /\ before = SeedTickets
    /\ session = NoSession
    /\ steps = 0

InitCounter ==
    /\ count = 0
    /\ shown = 0
    /\ net = 0

Init == InitApp /\ InitCounter

Next ==
    \/ OpenForCreate
    \/ OpenForEdit
    \/ SetTitle
    \/ SetDescription
    \/ SetStatus
    \/ Save
    \/ Cancel
    \/ Delete
    \/ Rate
    \/ Tick

Spec == Init /\ [][Next]_vars

----------------------------------------------------------------------------
(* The counter's handlers.  Counter.tsx and the counter screen's App are the *)
(* same component under two names: one useState cell and three arrow        *)
(* functions, each created by a render and reading the count of that render *)

\* () => setCount(count + 1)
increment ==
    /\ count' = shown + 1
    /\ UNCHANGED shown

\* () => setCount(count - 1)
decrement ==
    /\ count' = shown - 1
    /\ UNCHANGED shown

\* () => setCount(0)
reset ==
    /\ count' = 0
    /\ UNCHANGED shown

\* the component function runs again: its handlers now close over the cell
Render ==
    /\ shown # count
    /\ shown' = count
    /\ UNCHANGED <<count, net>>
    /\ UNCHANGED <<appVars, now, histVars>>

Increment ==
    /\ net < MaxCount /\ shown < MaxCount
    /\ increment
    /\ net' = net + 1
    /\ UNCHANGED <<appVars, now, histVars>>

Decrement ==
    /\ net > -MaxCount /\ shown > -MaxCount
    /\ decrement
    /\ net' = net - 1
    /\ UNCHANGED <<appVars, now, histVars>>

Reset ==
    /\ reset
    /\ net' = 0
    /\ UNCHANGED <<appVars, now, histVars>>

NextCounter ==
    \/ Increment
    \/ Decrement
    \/ Reset
    \/ Render

SpecCounter == Init /\ [][NextCounter]_vars

----------------------------------------------------------------------------
(* Properties *)

HasId(s, id) == \E i \in 1..Len(s) : s[i].id = id

UniqueIds(s) == \A i, j \in 1..Len(s) : i # j => s[i].id # s[j].id

RemoveAt(s, i) == SubSeq(s, 1, i - 1) \o SubSeq(s, i + 1, Len(s))

\* a ticket after update(id, ti, de, st), as the store's contract words it
Updated(t, ti, de, st) ==
    [id |-> t.id, title |-> ti, description |-> de, status |-> st,
     rating |-> IF st = "Completed" THEN t.rating ELSE None]

\* the last handler was saveTicket and it took its edit branch
SavedEdit == last.op = "save" /\ isEditing /\ Truthy(currentId)

\* the last handler was saveTicket and it took its create branch
SavedCreate == last.op = "save" /\ ~(isEditing /\ Truthy(currentId))

\* C1: after every call, every ticket of the store that has a rating has
\* status Completed.
C1_RatingImpliesCompleted ==
    \A i \in 1..Len(tickets) :
        tickets[i].rating # None => tickets[i].status = "Completed"

\* C2: update on an id present in the store replaces title, description and
\* status of that one ticket in place, clears its rating unless the new status
\* is Completed (then keeps it as it was), and leaves every other ticket as
\* it was.
C2_UpdateReplacesOne ==
    (SavedEdit /\ HasId(before, currentId[1])) =>
        \E i \in 1..Len(before) :
            /\ before[i].id = currentId[1]
            /\ tickets = [before EXCEPT
                             ![i] = Updated(before[i], title, description, status)]

\* C2, while ids are unique: the same statement for a collection in which no
\* two tickets share an id.
C2_UpdateReplacesOneWhileUnique ==
    UniqueIds(before) => C2_UpdateReplacesOne

\* C3: no two tickets of the store share an id.
C3_IdsUnique == UniqueIds(tickets)

\* C4: create leaves the collection as it was, in the same order, followed by
\* exactly one new ticket that carries the given title, description and
\* status and no rating.
C4_CreateAppendsOne ==
    SavedCreate =>
        /\ Len(tickets) = Len(before) + 1
        /\ SubSeq(tickets, 1, Len(before)) = before
        /\ tickets[Len(tickets)].title = title
        /\ tickets[Len(tickets)].description = description
        /\ tickets[Len(tickets)].status = status
        /\ tickets[Len(tickets)].rating = None

C4_Witness ==
    /\ SavedCreate
    /\ Len(before) = Len(SeedTickets)
    /\ Len(tickets) = Len(before) + 1
    /\ tickets[Len(tickets)].title = "X"
    /\ tickets[Len(tickets)].description = "Y"
    /\ tickets[Len(tickets)].status = "Completed"

\* C5: update, delete and rate with an id no ticket has leave the collection
\* as it was; so does saving an edit session whose ticket was deleted after
\* the session was opened.
C5_UnknownIdNoOp ==
    /\ (last.op \in {"delete", "rate"} /\ ~HasId(before, last.id[1])) =>
           tickets = before
    /\ (SavedEdit /\ ~HasId(before, currentId[1])) => tickets = before

C5_Witness ==
    /\ SavedEdit
    /\ session.mode = "Edit"
    /\ session.id = currentId
    /\ ~HasId(before, currentId[1])
    /\ Len(before) = Len(SeedTickets) - 1
    /\ title = "X"

\* C6: rate on an id present in the store sets the rating of that one ticket,
\* whatever its status, and changes nothing else in it or in any other
\* ticket.
C6_RateSetsOne ==
    (last.op = "rate" /\ HasId(before, last.id[1])) =>
        \E i \in 1..Len(before) :
            /\ before[i].id = last.id[1]
            /\ tickets = [before EXCEPT ![i].rating = last.arg]

\* C6, while ids are unique.
C6_RateSetsOneWhileUnique ==
    UniqueIds(before) => C6_RateSetsOne

\* C7: delete on an id present in the store removes one ticket, the one with
\* that id; the others keep their contents and their order.
C7_DeleteRemovesOne ==
    (last.op = "delete" /\ HasId(before, last.id[1])) =>
        \E i \in 1..Len(before) :
            /\ before[i].id = last.id[1]
            /\ tickets = RemoveAt(before, i)

\* C7, while ids are unique.
C7_DeleteRemovesOneWhileUnique ==
    UniqueIds(before) => C7_DeleteRemovesOne

\* C8: openForCreate, openForEdit, setField and cancel leave the collection
\* as it was, so a session of an open, any field edits and a cancel leaves it
\* as it was before the open; cancel leaves the modal closed.
C8_SessionStepsLeaveStore ==
    /\ last.op \in {"openForCreate", "openForEdit", "setField", "cancel"} =>
           tickets = before
    /\ last.op = "cancel" => ~modalVisible

C8_Witness ==
    /\ last.op = "cancel"
    /\ session.mode = "Edit"
    /\ session.title = "X"
    /\ session.status # "Completed"
    /\ session.id = Some("3")
    /\ tickets = SeedTickets
    /\ ~modalVisible

\* C9: the count equals the increments minus the decrements pressed since the
\* last reset, whether or not the component rendered between the presses.
C9_CountIsNet == count = net

\* C9, for a press handled right after a render: it moves the count by one.
C9_PressAfterRenderCounts ==
    [][(shown = count) =>
           /\ Increment => count' = count + 1
           /\ Decrement => count' = count - 1
           /\ Reset => count' = 0]_vars

\* C10: an open starts the session from blanks (create) or from the opened
\* ticket's fields (edit); save commits the fields that open and the setField
\* calls since it define: in a create session it appends one ticket and
\* leaves the others alone, in an edit session it updates the opened id and
\* keeps the length; save leaves the modal closed.
C10_SaveCommitsSession ==
    /\ last.op = "openForCreate" =>
           /\ modalVisible /\ ~isEditing
           /\ <<title, description, status>> = <<"", "", "Created">>
    /\ last.op = "openForEdit" =>
           /\ modalVisible /\ isEditing /\ currentId = last.id
           /\ <<title, description, status>> =
                  <<last.arg[1].title, last.arg[1].description, last.arg[1].status>>
    /\ (last.op = "save" /\ session.mode = "Create") =>
           /\ ~modalVisible
           /\ Len(tickets) = Len(before) + 1
           /\ SubSeq(tickets, 1, Len(before)) = before
           /\ tickets[Len(tickets)].title = session.title
           /\ tickets[Len(tickets)].description = session.description
           /\ tickets[Len(tickets)].status = session.status
           /\ tickets[Len(tickets)].rating = None
    /\ (last.op = "save" /\ session.mode = "Edit") =>
           /\ ~modalVisible
           /\ Len(tickets) = Len(before)
           /\ \A i \in 1..Len(before) :
                  tickets[i] =
                      IF before[i].id = session.id[1]
                      THEN Updated(before[i], session.title, session.description,
                                   session.status)
                      ELSE before[i]

C10_Witness ==
    /\ last.op = "save"
    /\ session.mode = "Edit"
    /\ session.title = "X"
    /\ Len(before) = Len(SeedTickets) + 1
    /\ HasId(before, session.id[1])
    /\ tickets # before
    /\ ~modalVisible

====
